---- MODULE Spec2Model ----
(***************************************************************************)
(* A model of github.com/Travis-Britz/ddns: the quorum web resolver        *)
(* (webResolver.Resolve), the Cloudflare reconciliation                    *)
(* (cloudflareProvider.SetDNSRecords), the single cycle (client.RunDDNS),  *)
(* the daemon loop (RunDaemon) and the Join of resolvers                   *)
(* (joinResolver.Resolve).                                                 *)
(*                                                                         *)
(* The specifications of the module:                                       *)
(*   SpecWeb         one call of webResolver.Resolve with its goroutines,  *)
(*   SpecCF          SetDNSRecords called on a provider record store,      *)
(*                   once and once more with the same addresses, the store *)
(*                   possibly changed from outside in between,             *)
(*   Spec            RunDaemon driving RunDDNS, which calls a resolver and *)
(*                   then SetDNSRecords on the provider's store,           *)
(*   SpecWebCancel   SpecWeb with a caller that may cancel the context,    *)
(*   SpecWebRef      one call of the earlier webResolver.Resolve            *)
(*                   (web_resolver.go), whose channel has capacity 2,      *)
(*   FairSpecWeb     SpecWeb, every goroutine runs on and every lookup ends,*)
(*   SpecJoin        one call of joinResolver.Resolve with its goroutines,  *)
(*   SpecNew         one call of New applying its options in turn,         *)
(*   SpecInterval    the entry of RunDaemon, for every interval argument,   *)
(*   FairSpecCancel  Spec, every started step ends, ticker unconstrained,  *)
(*   FairSpecTimer   Spec, every started step ends, the ticker fires.      *)
(***************************************************************************)
EXTENDS Integers, Sequences, FiniteSets, TLC

VARIABLES
    \* ---- webResolver.Resolve
    impl,          \* which webResolver: "current" (part_004) or "reference"
                   \* (the earlier one of web_resolver.go)
    serviceURLs,   \* wr.serviceURLs: [isNil, urls]
    wpc,           \* position of the goroutine running Resolve
    useCount,      \* lookups to start
    waitFor,       \* successes needed
    spawned,       \* loop index i of the spawn loop
    task,          \* task[i]: the goroutine of loop index i: [pc, url, r]
    results,       \* the buffered channel, oldest first
    closed,        \* close(results) has run
    wg,            \* the sync.WaitGroup counter
    cpc,           \* position of the goroutine that waits and closes
    resultCount,   \* successful results received
    wctx,          \* the caller's context: [done, looked, recvd]: cancelled, and
                   \* the lookups ended and results received when it was
    errs,          \* errors received, in order
    ip,            \* the first successful address received
    ret,           \* what Resolve returned: [addrs, err]
    recvd,         \* every result the range loop received, in order
    \* ---- cloudflareProvider.SetDNSRecords and the provider's store
    store,         \* the provider's A/AAAA records of the domain, a set of [id, type, content]
    cfpc,          \* position inside SetDNSRecords
    addrs,         \* the addrs argument
    zid,           \* the zone id found
    records,       \* what ListDNSRecords returned
    ri,            \* index of the next element of records to look at
    ai,            \* index of the next element of addrs to look at
    existing,      \* the existing map's key set
    cfret,         \* what SetDNSRecords returned
    ops,           \* API mutations issued by this call, in order
    store0,        \* the store when the call started
    listed,        \* how ListDNSRecords ended in this call
    prev,          \* the call before this one: [addrs, ret], or NoPrev
    outOfBand,     \* the store was changed from outside since the last call
    \* ---- client.RunDDNS and RunDaemon
    dpc,           \* position inside RunDaemon
    rpc,           \* position inside RunDDNS
    ctxDone,       \* the governing context is cancelled
    tick,          \* a tick waits in ticker.C (capacity 1)
    missed,        \* since the current cycle began a tick found ticker.C full
    newIPs,        \* what the resolver returned: [addrs, err]
    runErr,        \* what RunDDNS returned
    setCalls,      \* arguments of the SetDNSRecords calls of the current cycle
    interval,      \* the interval argument of RunDaemon, in seconds
    ticker,        \* the period of the ticker, in seconds; NoTicker before it is made
    \* ---- joinResolver.Resolve
    resolvers,     \* len(r.resolvers)
    jpc,           \* position of the goroutine running Resolve
    jnext,         \* the member the spawn loop starts next
    jtask,         \* jtask[i]: the goroutine of member i: [pc, r]
    jresults,      \* the buffered channel, oldest first
    jwg,           \* the sync.WaitGroup counter
    jaddrs,        \* addrs collected by the range loop
    jerrs,         \* errs collected by the range loop
    jret,          \* what Resolve returned: [addrs, err]
    \* ---- New and its options
    options,       \* the options passed to New
    npc,           \* position inside New
    oi,            \* the option the loop of New applies next
    client,        \* the client New builds: [Resolver, logger]
    httpClient,    \* httpClient[w]: the httpClient field of web resolver w
    provider       \* the provider: [httpClient, logger]

webVars == <<impl, serviceURLs, wpc, useCount, waitFor, spawned, task, results, closed,
             wg, cpc, resultCount, errs, ip, ret, recvd, wctx>>
cfVars == <<store, cfpc, addrs, zid, records, ri, ai, existing, cfret, ops,
            store0, listed, prev, outOfBand>>
dVars == <<dpc, rpc, ctxDone, tick, missed, newIPs, runErr, setCalls, interval, ticker>>
jVars == <<resolvers, jpc, jnext, jtask, jresults, jwg, jaddrs, jerrs, jret>>
nVars == <<options, npc, oi, client, httpClient, provider>>
vars == <<webVars, cfVars, dVars, jVars, nVars>>

----------------------------------------------------------------------------
\* Bounds of the model.

\* Longest serviceURLs list tried.
MaxURLs == 4
\* Most records in the store when SetDNSRecords is called on its own.
MaxInitial == 2
\* Longest addrs argument tried.
MaxAddrs == 2
\* Most records the store holds while the daemon runs cycle after cycle.
MaxStore == 1
\* Most records in the store when the daemon starts.
MaxDaemonInitial == 1
\* Longest address list the daemon's resolver returns.
MaxResolved == 1
\* Longest interval RunDaemon is called with, in seconds.
MaxInterval == 120
\* Most members of a Join.
MaxMembers == 3
\* Most options passed to New.
MaxOptions == 3

----------------------------------------------------------------------------
\* netip.Addr values: <<4, a, b, c, d>> or <<6, g1, .., g8>>; <<0>> is netip.Addr{}.

NoAddr == <<0>>
IP4(a, b, c, d) == <<4, a, b, c, d>>
IP6(g) == <<6>> \o g

Home == IP4(192, 168, 2, 1)
Other == IP4(10, 0, 0, 10)
Loop == IP4(127, 0, 0, 1)
Six == IP6(<<8193, 3512, 0, 0, 0, 0, 0, 1>>)

Is4(a) == a[1] = 4
Is6(a) == a[1] = 6

\* netip.ParseAddr on the texts the model uses; NoAddr stands for an error.
ParseAddr(s) ==
    CASE s = "192.168.2.1" -> Home
      [] s = "10.0.0.10" -> Other
      [] s = "127.0.0.1" -> Loop
      [] s = "2001:db8::1" -> Six
      [] s = "2001:DB8:0:0::1" -> Six
      [] OTHER -> NoAddr

\* netip.Addr.String: the canonical text.
AddrString(a) ==
    CASE a = Home -> "192.168.2.1"
      [] a = Other -> "10.0.0.10"
      [] a = Loop -> "127.0.0.1"
      [] a = Six -> "2001:db8::1"
      [] OTHER -> "invalid IP"

Range(s) == {s[i] : i \in 1..Len(s)}

----------------------------------------------------------------------------
\* webResolver.Resolve

NilErr == "nil"

\* A service URL: host number h, and whether url.Parse accepts the text.
URL(h, ok) == [host |-> h, ok |-> ok]

\* The serviceURLs lists tried: nil, empty, and n URLs of which at most one
\* does not parse.
URLLists ==
    {[isNil |-> TRUE, urls |-> <<>>], [isNil |-> FALSE, urls |-> <<>>]}
    \cup {[isNil |-> FALSE, urls |-> [i \in 1..n |-> URL(i, i # b)]] :
              n \in 1..MaxURLs, b \in 0..1}

\* The count of the earlier version (const useCount = 3), whatever the number
\* of URLs.
UseCountThree(n) == 3
UseCount(n) == CASE n = 1 -> 1 [] n = 2 -> 2 [] OTHER -> 3
\* A slip in the switch: one success is enough whatever the number of URLs.
WaitForOne(n) == 1
\* A slip in the switch: two successes are needed even with one URL.
WaitForTwo(n) == 2
WaitFor(n) == CASE n = 1 -> 1 [] n = 2 -> 2 [] OTHER -> 2
\* The capacity of the earlier version: make(chan result, 2).
ChanCapTwo(uc) == 2
\* A slip: room for one result only.
ChanCapOne(uc) == 1
ChanCap(uc) == uc

\* The reference version (web_resolver.go:186-254): three lookups whatever the
\* number of URLs, two successes needed, a channel of capacity 2.
RefUseCount(n) == 3
RefWaitFor(n) == 2
\* A slip: room for one result only.
RefChanCapOne(uc) == 1
RefChanCap(uc) == 2

\* The first line of a response body, strings.TrimSpace applied.
FirstLineTrimmed(body) ==
    CASE body = "192.168.2.1" -> "192.168.2.1"
      [] body = " 192.168.2.1 \nextra" -> "192.168.2.1"
      [] body = "10.0.0.10\n" -> "10.0.0.10"
      [] body = "127.0.0.1\n" -> "127.0.0.1"
      [] body = "invalid ip" -> "invalid ip"
      [] OTHER -> ""

Bodies == {"192.168.2.1", " 192.168.2.1 \nextra", "10.0.0.10\n", "127.0.0.1\n",
           "invalid ip"}

\* What an endpoint can answer: no answer (the request fails), or a status and
\* a body.
Responses ==
    {[sent |-> FALSE, status |-> 0, body |-> ""]}
    \cup {[sent |-> TRUE, status |-> 500, body |-> "192.168.2.1"]}
    \cup {[sent |-> TRUE, status |-> 200, body |-> b] : b \in Bodies}

\* webResolver.lookup, given the endpoint's answer.
lookup(resp) ==
    IF ~resp.sent THEN [addr |-> NoAddr, err |-> "http request failed"]
    ELSE IF resp.status # 200 THEN [addr |-> NoAddr, err |-> "http request returned"]
    ELSE LET a == ParseAddr(FirstLineTrimmed(resp.body))
         IN IF a = NoAddr
            THEN [addr |-> NoAddr, err |-> "error parsing IP address"]
            ELSE [addr |-> a, err |-> NilErr]

\* A context that is not cancelled.
Background == [done |-> FALSE, looked |-> {}, recvd |-> 0]

\* What a lookup whose context is cancelled ends with: the request fails, or
\* the read of the body is cut short.
CancelledResponses ==
    {[sent |-> FALSE, status |-> 0, body |-> ""],
     [sent |-> TRUE, status |-> 200, body |-> ""]}

\* A slip: the lookups do not get the context.
AnswersIgnoringCtx(done) == Responses
\* Lines 100, 118, 164, 173: the request is made with the context derived from
\* the caller's; the answers a lookup can end with.
Answers(done) == IF done THEN CancelledResponses ELSE Responses

NoTask == [pc |-> "none", url |-> URL(0, TRUE), r |-> [addr |-> NoAddr, err |-> NilErr]]
TaskIds == 0..2

InitWebIdle ==
    /\ impl = "current"
    /\ serviceURLs = [isNil |-> TRUE, urls |-> <<>>]
    /\ wpc = "idle"
    /\ useCount = 0
    /\ waitFor = 0
    /\ spawned = 0
    /\ task = [i \in TaskIds |-> NoTask]
    /\ results = <<>>
    /\ closed = FALSE
    /\ wg = 0
    /\ cpc = "none"
    /\ resultCount = 0
    /\ errs = <<>>
    /\ ip = NoAddr
    /\ ret = [addrs |-> <<>>, err |-> NilErr, joined |-> <<>>]
    /\ recvd = <<>>
    /\ wctx = Background

InitWeb ==
    /\ impl = "current"
    /\ serviceURLs \in URLLists
    /\ wpc = "call"
    /\ useCount = 0
    /\ waitFor = 0
    /\ spawned = 0
    /\ task = [i \in TaskIds |-> NoTask]
    /\ results = <<>>
    /\ closed = FALSE
    /\ wg = 0
    /\ cpc = "none"
    /\ resultCount = 0
    /\ errs = <<>>
    /\ ip = NoAddr
    /\ ret = [addrs |-> <<>>, err |-> NilErr, joined |-> <<>>]
    /\ recvd = <<>>
    /\ wctx = Background

\* Resolve returns addresses a and error e; joined lists the errors that e
\* wraps.
Return(a, e, j) ==
    /\ wpc' = "returned"
    /\ ret' = [addrs |-> a, err |-> e, joined |-> j]

\* Lines 77-79: no service URLs.
W_NoServices ==
    /\ wpc = "call"
    /\ serviceURLs.isNil
    /\ Return(<<>>, "no external IP lookup services were provided", <<>>)
    /\ UNCHANGED <<cfVars, dVars, jVars, nVars, wctx, impl, serviceURLs, useCount, waitFor, spawned, task, results, closed,
                   wg, cpc, resultCount, errs, ip, recvd>>

\* Lines 81-88: a URL that does not parse. (The reference version is handed
\* parsed URLs.)
W_ParseError ==
    /\ wpc = "call"
    /\ impl = "current"
    /\ ~serviceURLs.isNil
    /\ \E i \in 1..Len(serviceURLs.urls) : ~serviceURLs.urls[i].ok
    /\ Return(<<>>, "error parsing URL", <<>>)
    /\ UNCHANGED <<cfVars, dVars, jVars, nVars, wctx, impl, serviceURLs, useCount, waitFor, spawned, task, results, closed,
                   wg, cpc, resultCount, errs, ip, recvd>>

\* Lines 90-112: the counts, the channel, wg.Add(useCount).
W_Setup ==
    /\ wpc = "call"
    /\ ~serviceURLs.isNil
    /\ \A i \in 1..Len(serviceURLs.urls) : serviceURLs.urls[i].ok
    /\ useCount' = IF impl = "reference" THEN RefUseCount(Len(serviceURLs.urls))
                   ELSE UseCount(Len(serviceURLs.urls))
    /\ waitFor' = IF impl = "reference" THEN RefWaitFor(Len(serviceURLs.urls))
                  ELSE WaitFor(Len(serviceURLs.urls))
    /\ wg' = useCount'
    /\ wpc' = "spawn"
    /\ UNCHANGED <<cfVars, dVars, jVars, nVars, wctx, impl, serviceURLs, spawned, task, results, closed, cpc, resultCount,
                   errs, ip, ret, recvd>>

\* A slip: a lookup is started only when the one before it has ended.
W_SpawnInTurn ==
    /\ wpc = "spawn"
    /\ spawned < useCount
    /\ Len(serviceURLs.urls) > 0
    /\ \A i \in 0..(spawned - 1) : task[i].pc = "done"
    /\ task' = [task EXCEPT ![spawned] =
                   [pc |-> "lookup",
                    url |-> serviceURLs.urls[(spawned % Len(serviceURLs.urls)) + 1],
                    r |-> [addr |-> NoAddr, err |-> NilErr]]]
    /\ spawned' = spawned + 1
    /\ UNCHANGED <<cfVars, dVars, jVars, nVars, wctx, impl, serviceURLs, wpc, useCount, waitFor, results,
                   closed, wg, cpc, resultCount, errs, ip, ret, recvd>>

\* Lines 113-125: one pass of the spawn loop; i % 0 panics.
W_Spawn ==
    /\ wpc = "spawn"
    /\ spawned < useCount
    /\ IF Len(serviceURLs.urls) = 0
       THEN /\ wpc' = "panicked"
            /\ UNCHANGED <<task, spawned>>
       ELSE /\ task' = [task EXCEPT ![spawned] =
                   [pc |-> "lookup",
                    url |-> serviceURLs.urls[(spawned % Len(serviceURLs.urls)) + 1],
                    r |-> [addr |-> NoAddr, err |-> NilErr]]]
            /\ spawned' = spawned + 1
            /\ wpc' = wpc
    /\ UNCHANGED <<cfVars, dVars, jVars, nVars, wctx, impl, serviceURLs, useCount, waitFor, results, closed, wg, cpc,
                   resultCount, errs, ip, ret, recvd>>

\* Line 126: start the goroutine that waits and closes.
W_SpawnCloser ==
    /\ wpc = "spawn"
    /\ spawned = useCount
    /\ cpc' = "wait"
    /\ wpc' = "range"
    /\ UNCHANGED <<cfVars, dVars, jVars, nVars, wctx, impl, serviceURLs, useCount, waitFor, spawned, task, results, closed,
                   wg, resultCount, errs, ip, ret, recvd>>

\* Line 118: the lookup of task i ends with some answer of its endpoint.
T_Lookup(i) ==
    /\ task[i].pc = "lookup"
    /\ \E resp \in Answers(wctx.done \/ wpc = "returned") :
          task' = [task EXCEPT ![i].pc = "send", ![i].r = lookup(resp)]
    /\ UNCHANGED <<cfVars, dVars, jVars, nVars, wctx, impl, serviceURLs, wpc, useCount, waitFor, spawned, results, closed,
                   wg, cpc, resultCount, errs, ip, ret, recvd>>

\* The caller cancels the context it passed to Resolve while the call runs.
W_Cancel ==
    /\ wpc \in {"call", "spawn", "range"}
    /\ ~wctx.done
    /\ wctx' = [done |-> TRUE,
                looked |-> {i \in TaskIds : task[i].pc \in {"send", "done"}},
                recvd |-> Len(recvd)]
    /\ UNCHANGED <<cfVars, dVars, jVars, nVars, impl, serviceURLs, wpc, useCount, waitFor, spawned, task,
                   results, closed, wg, cpc, resultCount, errs, ip, ret, recvd>>

\* A slip: a plain send, which waits until the range loop is there to take
\* the result.
T_SendBlocking(i) ==
    /\ task[i].pc = "send"
    /\ wpc = "range"
    /\ results = <<>>
    /\ results' = Append(results, [addr |-> task[i].r.addr,
                                   err |-> task[i].r.err, from |-> i])
    /\ wg' = wg - 1
    /\ task' = [task EXCEPT ![i].pc = "done"]
    /\ UNCHANGED <<cfVars, dVars, jVars, nVars, wctx, impl, serviceURLs, wpc, useCount, waitFor, spawned,
                   closed, cpc, resultCount, errs, ip, ret, recvd>>

\* Lines 116, 120-123: the send that does not block, then wg.Done().
T_Send(i) ==
    /\ task[i].pc = "send"
    /\ results' = IF Len(results) < (IF impl = "reference" THEN RefChanCap(useCount)
                                     ELSE ChanCap(useCount))
                  THEN Append(results, [addr |-> task[i].r.addr,
                                        err |-> task[i].r.err, from |-> i])
                  ELSE results
    /\ wg' = wg - 1
    /\ task' = [task EXCEPT ![i].pc = "done"]
    /\ UNCHANGED <<cfVars, dVars, jVars, nVars, wctx, impl, serviceURLs, wpc, useCount, waitFor, spawned, closed, cpc,
                   resultCount, errs, ip, ret, recvd>>

\* Line 126: wg.Wait() returns, close(results).
C_Close ==
    /\ cpc = "wait"
    /\ wg = 0
    /\ closed' = TRUE
    /\ cpc' = "done"
    /\ UNCHANGED <<cfVars, dVars, jVars, nVars, wctx, impl, serviceURLs, wpc, useCount, waitFor, spawned, task, results, wg,
                   resultCount, errs, ip, ret, recvd>>

\* A slip: the loop body never returns, the loop runs until the channel is
\* closed.
OnResultToTheEnd(r, rc, es, first, wf) ==
    IF r.err # NilErr
    THEN [resultCount |-> rc, errs |-> Append(es, r), ip |-> first,
          done |-> FALSE, addrs |-> <<>>]
    ELSE [resultCount |-> rc + 1, errs |-> es,
          ip |-> IF first = NoAddr THEN r.addr ELSE first,
          done |-> FALSE, addrs |-> <<>>]

\* A slip: a result that differs replaces the address later results are
\* compared with.
OnResultLastSeen(r, rc, es, first, wf) ==
    IF r.err # NilErr
    THEN [resultCount |-> rc, errs |-> Append(es, r), ip |-> first,
          done |-> FALSE, addrs |-> <<>>]
    ELSE IF first = NoAddr
         THEN [resultCount |-> rc + 1, errs |-> es, ip |-> r.addr,
               done |-> wf = 1, addrs |-> IF wf = 1 THEN <<r.addr>> ELSE <<>>]
         ELSE IF first = r.addr
              THEN [resultCount |-> rc + 1, errs |-> es, ip |-> first,
                    done |-> TRUE, addrs |-> <<first>>]
              ELSE [resultCount |-> rc + 1, errs |-> es, ip |-> r.addr,
                    done |-> FALSE, addrs |-> <<>>]

\* Lines 131-147: the body of the range loop for one received result r.
\* done says the loop returned; addrs is then what it returned.
OnResult(r, rc, es, first, wf) ==
    IF r.err # NilErr
    THEN [resultCount |-> rc, errs |-> Append(es, r), ip |-> first,
          done |-> FALSE, addrs |-> <<>>]
    ELSE IF first = NoAddr
         THEN [resultCount |-> rc + 1, errs |-> es, ip |-> r.addr,
               done |-> wf = 1, addrs |-> IF wf = 1 THEN <<r.addr>> ELSE <<>>]
         ELSE IF first = r.addr
              THEN [resultCount |-> rc + 1, errs |-> es, ip |-> first,
                    done |-> TRUE, addrs |-> <<first>>]
              ELSE [resultCount |-> rc + 1, errs |-> es, ip |-> first,
                    done |-> FALSE, addrs |-> <<>>]

\* Line 131: receive the oldest result and run the loop body.
W_Recv ==
    /\ wpc = "range"
    /\ results # <<>>
    /\ LET n == OnResult(Head(results), resultCount, errs, ip, waitFor)
       IN /\ resultCount' = n.resultCount
          /\ errs' = n.errs
          /\ ip' = n.ip
          /\ IF n.done
             THEN Return(n.addrs, NilErr, <<>>)
             ELSE UNCHANGED <<wpc, ret>>
    /\ results' = Tail(results)
    /\ recvd' = Append(recvd, Head(results))
    /\ UNCHANGED <<cfVars, dVars, jVars, nVars, wctx, impl, serviceURLs, useCount, waitFor, spawned, task, closed, wg, cpc>>

\* The errors of the failed results es, in the order received.
ErrorsOf(es) == [k \in 1..Len(es) |-> es[k].err]

\* A slip: the failure returns hand back the one address that was seen.
VerdictPartial(rc, wf, first, es) ==
    IF rc < wf
    THEN [addrs |-> IF first = NoAddr THEN <<>> ELSE <<first>>,
          err |-> "not enough resolvers responded without errors",
          joined |-> ErrorsOf(es)]
    ELSE [addrs |-> <<first>>, err |-> "IP resolvers did not agree on our IP",
          joined |-> <<>>]

\* A slip in the comparison: resultCount <= waitFor.
VerdictOffByOne(rc, wf, first, es) ==
    IF rc <= wf
    THEN [addrs |-> <<>>, err |-> "not enough resolvers responded without errors",
          joined |-> ErrorsOf(es)]
    ELSE [addrs |-> <<>>, err |-> "IP resolvers did not agree on our IP",
          joined |-> <<>>]

\* A slip: the failures are not joined into the error.
VerdictNotJoined(rc, wf, first, es) ==
    IF rc < wf
    THEN [addrs |-> <<>>, err |-> "not enough resolvers responded without errors",
          joined |-> <<>>]
    ELSE [addrs |-> <<>>, err |-> "IP resolvers did not agree on our IP",
          joined |-> <<>>]

\* Lines 148-152: what Resolve returns when the loop ends without agreement;
\* only the first error wraps errors.Join(errs...).
Verdict(rc, wf, first, es) ==
    IF rc < wf
    THEN [addrs |-> <<>>, err |-> "not enough resolvers responded without errors",
          joined |-> ErrorsOf(es)]
    ELSE [addrs |-> <<>>, err |-> "IP resolvers did not agree on our IP",
          joined |-> <<>>]

\* Lines 131, 148-152: the channel is closed and empty: the loop ends.
W_Drained ==
    /\ wpc = "range"
    /\ results = <<>>
    /\ closed
    /\ LET v == Verdict(resultCount, waitFor, ip, errs)
       IN Return(v.addrs, v.err, v.joined)
    /\ UNCHANGED <<cfVars, dVars, jVars, nVars, wctx, impl, serviceURLs, useCount, waitFor, spawned, task, results, closed,
                   wg, cpc, resultCount, errs, ip, recvd>>

NextWeb ==
    \/ W_NoServices
    \/ W_ParseError
    \/ W_Setup
    \/ W_Spawn
    \/ W_SpawnCloser
    \/ \E i \in TaskIds : T_Lookup(i)
    \/ \E i \in TaskIds : T_Send(i)
    \/ C_Close
    \/ W_Recv
    \/ W_Drained

----------------------------------------------------------------------------
\* Errors of the provider side and of RunDDNS: a message and how
\* errors.As classifies the chain ("authn": IsAuthenticationError() is true,
\* "authz": IsAuthorizationError() is true, "other": neither).

NilE == [msg |-> "", class |-> "nil"]
Err(m, c) == [msg |-> m, class |-> c]
\* fmt.Errorf("...: %w", e): the message changes, the chain keeps its class.
Wrap(m, e) == [msg |-> m, class |-> e.class]
APIErrors == {Err("api", c) : c \in {"other", "authn", "authz"}}

----------------------------------------------------------------------------
\* The provider's store and cloudflareProvider.SetDNSRecords

\* recordType: "A" or "AAAA"; the Go function panics on any other address.
recordType(a) == IF Is4(a) THEN "A" ELSE IF Is6(a) THEN "AAAA" ELSE "panic"

\* Record contents a store can hold before the program touches it.
Contents == {"192.168.2.1", "10.0.0.10", "2001:DB8:0:0::1", "not an ip"}
ContentType(c) == IF c = "2001:DB8:0:0::1" THEN "AAAA" ELSE "A"

\* Addresses a resolver can hand to SetDNSRecords, and the lists of them of
\* length at most n.
DesiredAddrs == {Home, Six}
AddrLists(n) == UNION {[1..k -> DesiredAddrs] : k \in 0..n}

\* The stores that hold records 1..k, k <= n, with any contents.
Stores(n) ==
    UNION {{{[id |-> i, type |-> ContentType(f[i]), content |-> f[i]] : i \in 1..k} :
               f \in [1..k -> Contents]} : k \in 0..n}

Ids(st) == {r.id : r \in st}
\* The identifier the provider gives a new record.
FreshId(st) == CHOOSE i \in 1..(Cardinality(st) + 1) : i \notin Ids(st)

RECURSIVE ById(_)
\* The records of a set as a list, by identifier.
ById(st) ==
    IF st = {} THEN <<>>
    ELSE LET r == CHOOSE x \in st : \A y \in st : x.id <= y.id
         IN <<r>> \o ById(st \ {r})

\* Most records the store may hold: a call on its own is never cut short, the
\* daemon's store is.
StoreCap == IF dpc = "none" THEN MaxInitial + MaxAddrs ELSE MaxStore

NoPrev == [addrs |-> <<>>, ret |-> Err("no call before", "other")]

\* The zones ListZones can return; suffix says strings.HasSuffix(domain, name).
Zones == {[name |-> "example.com", id |-> "z1", len |-> 11, suffix |-> TRUE],
          [name |-> "home.example.com", id |-> "z2", len |-> 16, suffix |-> TRUE],
          [name |-> "example.org", id |-> "z3", len |-> 11, suffix |-> FALSE]}

\* A slip: the longest zone name wins whether or not it ends the domain.
getZoneIDAnyZone(zs) ==
    IF zs = {} THEN ""
    ELSE (CHOOSE z \in zs : \A y \in zs : y.len <= z.len).id

\* getZoneIDFromDomain after ListZones returned zs: the id of the longest zone
\* name that is a suffix of the domain, "" when there is none.
getZoneIDFromDomain(zs) ==
    LET m == {z \in zs : z.suffix}
    IN IF m = {} THEN ""
       ELSE (CHOOSE z \in m : \A y \in m : y.len <= z.len).id

InitCFIdle ==
    /\ cfpc = "idle"
    /\ addrs = <<>>
    /\ zid = ""
    /\ records = <<>>
    /\ ri = 1
    /\ ai = 1
    /\ existing = {}
    /\ cfret = NilE
    /\ ops = <<>>
    /\ store0 = store
    /\ listed = "no"
    /\ prev = NoPrev
    /\ outOfBand = FALSE

\* SetDNSRecords is entered with argument a.
EnterSet(a) ==
    /\ cfpc' = "zone"
    /\ addrs' = a
    /\ zid' = ""
    /\ records' = <<>>
    /\ ri' = 1
    /\ ai' = 1
    /\ existing' = {}
    /\ cfret' = NilE
    /\ ops' = <<>>
    /\ store0' = store
    /\ listed' = "no"
    /\ prev' = IF cfpc \in {"returned", "changed"}
               THEN [addrs |-> addrs, ret |-> cfret] ELSE NoPrev
    /\ UNCHANGED <<store, outOfBand>>

ReturnSet(e) ==
    /\ cfpc' = "returned"
    /\ cfret' = e

\* A slip: a failed delete or create is passed over and the call goes on.
IgnoreOpError(m, e) == UNCHANGED <<cfpc, cfret>>
\* Lines 77-79, 97-99: a failed delete or create returns its error, wrapped.
ReturnOpError(m, e) == ReturnSet(Wrap(m, e))

\* The caller has taken the result: the locals of the call are gone.
LeaveSet ==
    /\ cfpc' = "idle"
    /\ addrs' = <<>>
    /\ zid' = ""
    /\ records' = <<>>
    /\ ri' = 1
    /\ ai' = 1
    /\ existing' = {}
    /\ cfret' = NilE
    /\ ops' = <<>>
    /\ store0' = store
    /\ listed' = "no"
    /\ prev' = NoPrev
    /\ UNCHANGED <<store, outOfBand>>

\* A caller calls SetDNSRecords with some list of addresses.
CF_Call ==
    /\ dpc = "none"
    /\ cfpc = "idle"
    /\ \E a \in AddrLists(MaxAddrs) : EnterSet(a)
    /\ UNCHANGED <<webVars, dVars, jVars, nVars>>

\* The caller calls SetDNSRecords once more, after the first call returned
\* nil, with a list of the same addresses (the same list when the store was
\* changed in between).
CF_CallAgain ==
    /\ dpc = "none"
    /\ cfpc \in {"returned", "changed"}
    /\ cfret = NilE
    /\ prev = NoPrev
    /\ \E a \in AddrLists(MaxAddrs) :
          /\ Range(a) = Range(addrs)
          /\ outOfBand => a = addrs
          /\ EnterSet(a)
    /\ UNCHANGED <<webVars, dVars, jVars, nVars>>

\* Between two calls the provider's records are changed from outside: a record
\* is added, removed, or given another content. The locals of the call that
\* returned are gone; its argument and result are kept for the next call.
CF_External ==
    /\ dpc = "none"
    /\ cfpc = "returned"
    /\ cfret = NilE
    /\ prev = NoPrev
    /\ ~outOfBand
    /\ \/ \E c \in Contents :
             /\ Cardinality(store) < StoreCap
             /\ store' = store \cup {[id |-> FreshId(store), type |-> ContentType(c),
                                      content |-> c]}
       \/ \E r \in store : store' = store \ {r}
       \/ \E r \in store : \E c \in Contents \ {r.content} :
             store' = (store \ {r}) \cup {[id |-> r.id, type |-> ContentType(c),
                                           content |-> c]}
    /\ outOfBand' = TRUE
    /\ cfpc' = "changed"
    /\ zid' = ""
    /\ records' = <<>>
    /\ ri' = 1
    /\ ai' = 1
    /\ existing' = {}
    /\ ops' = <<>>
    /\ store0' = store'
    /\ listed' = "no"
    /\ UNCHANGED <<addrs, cfret, prev>>
    /\ UNCHANGED <<webVars, dVars, jVars, nVars>>

\* Lines 43-46, 107-110: ListZones fails.
CF_ZoneListFails ==
    /\ cfpc = "zone"
    /\ \E e \in APIErrors : ReturnSet(Wrap("unable to get zone ID", e))
    /\ UNCHANGED <<store, addrs, zid, records, ri, ai, existing, ops, store0,
                   listed, prev>>
    /\ UNCHANGED <<webVars, dVars, jVars, nVars, outOfBand>>

\* Lines 43-46, 112-121: ListZones returns some zones.
CF_Zone ==
    /\ cfpc = "zone"
    /\ \E zs \in SUBSET Zones :
          LET z == getZoneIDFromDomain(zs)
          IN IF z = ""
             THEN /\ ReturnSet(Err("unable to get zone ID", "other"))
                  /\ UNCHANGED zid
             ELSE /\ zid' = z
                  /\ cfpc' = "list"
                  /\ UNCHANGED cfret
    /\ UNCHANGED <<store, addrs, records, ri, ai, existing, ops, store0, listed, prev>>
    /\ UNCHANGED <<webVars, dVars, jVars, nVars, outOfBand>>

\* Lines 50-62: ListDNSRecords; its error is assigned and never read. A failed
\* call of the library returns no records.
CF_List ==
    /\ cfpc = "list"
    /\ \E ok \in BOOLEAN :
          /\ records' = IF ok THEN ById(store) ELSE <<>>
          /\ listed' = IF ok THEN "ok" ELSE "failed"
    /\ cfpc' = "loops"
    /\ UNCHANGED <<store, addrs, zid, ri, ai, existing, cfret, ops, store0, prev>>
    /\ UNCHANGED <<webVars, dVars, jVars, nVars, outOfBand>>

newAddrs == Range(addrs)

\* A slip: the create loop does not wait for the end of the records loop.
DeletesOverNever == TRUE
\* Lines 63-83: the loop over the existing records has ended.
DeletesOver == ri > Len(records)

\* Lines 63-67: the content of an existing record does not parse.
CF_RecordParseError ==
    /\ cfpc = "loops"
    /\ ri <= Len(records)
    /\ ParseAddr(records[ri].content) = NoAddr
    /\ ReturnSet(Err("error parsing IP from content", "other"))
    /\ UNCHANGED <<store, addrs, zid, records, ri, ai, existing, ops, store0,
                   listed, prev>>
    /\ UNCHANGED <<webVars, dVars, jVars, nVars, outOfBand>>

\* Lines 63-73: an existing record whose address is wanted stays.
CF_RecordKeep ==
    /\ cfpc = "loops"
    /\ ri <= Len(records)
    /\ LET a == ParseAddr(records[ri].content)
       IN /\ a # NoAddr
          /\ a \in newAddrs
          /\ existing' = existing \cup {a}
    /\ ri' = ri + 1
    /\ UNCHANGED <<store, cfpc, addrs, zid, records, ai, cfret, ops, store0,
                   listed, prev>>
    /\ UNCHANGED <<webVars, dVars, jVars, nVars, outOfBand>>

\* Lines 63-81: an existing record whose address is not wanted is deleted by
\* its identifier; a failed delete ends the call.
CF_RecordDelete ==
    /\ cfpc = "loops"
    /\ ri <= Len(records)
    /\ LET r == records[ri]
           a == ParseAddr(r.content)
       IN /\ a # NoAddr
          /\ a \notin newAddrs
          /\ existing' = existing \cup {a}
          /\ \/ /\ store' = {x \in store : x.id # r.id}
                /\ ops' = Append(ops, [op |-> "delete", id |-> r.id, addr |-> a,
                                       type |-> r.type, ok |-> TRUE])
                /\ ri' = ri + 1
                /\ UNCHANGED <<cfpc, cfret>>
             \/ /\ \E e \in APIErrors :
                      ReturnOpError("unable to delete DNS record", e)
                /\ ops' = Append(ops, [op |-> "delete", id |-> r.id, addr |-> a,
                                       type |-> r.type, ok |-> FALSE])
                /\ UNCHANGED <<store, ri>>
    /\ UNCHANGED <<addrs, zid, records, ai, store0, listed, prev>>
    /\ UNCHANGED <<webVars, dVars, jVars, nVars, outOfBand>>

\* Lines 83-87: an address that the existing map holds is skipped.
CF_AddrSkip ==
    /\ cfpc = "loops"
    /\ DeletesOver
    /\ ai <= Len(addrs)
    /\ addrs[ai] \in existing
    /\ ai' = ai + 1
    /\ UNCHANGED <<store, cfpc, addrs, zid, records, ri, existing, cfret, ops,
                   store0, listed, prev>>
    /\ UNCHANGED <<webVars, dVars, jVars, nVars, outOfBand>>

\* A slip: a failed create puts the records back as they were before the call.
CF_AddrCreateRollsBack ==
    /\ cfpc = "loops"
    /\ DeletesOver
    /\ ai <= Len(addrs)
    /\ addrs[ai] \notin existing
    /\ LET a == addrs[ai]
       IN \/ /\ Cardinality(store) < StoreCap
             /\ store' = store \cup {[id |-> FreshId(store), type |-> recordType(a),
                                      content |-> AddrString(a)]}
             /\ ops' = Append(ops, [op |-> "create", id |-> FreshId(store), addr |-> a,
                                    type |-> recordType(a), ok |-> TRUE])
             /\ ai' = ai + 1
             /\ UNCHANGED <<cfpc, cfret>>
          \/ /\ \E e \in APIErrors : ReturnOpError("error creating DNS record", e)
             /\ ops' = Append(ops, [op |-> "create", id |-> 0, addr |-> a,
                                    type |-> recordType(a), ok |-> FALSE])
             /\ store' = store0
             /\ UNCHANGED ai
    /\ UNCHANGED <<addrs, zid, records, ri, existing, store0, listed, prev>>
    /\ UNCHANGED <<webVars, dVars, jVars, nVars, outOfBand>>

\* Lines 83-101: an address the existing map does not hold gets a new record;
\* a failed create ends the call.
CF_AddrCreate ==
    /\ cfpc = "loops"
    /\ DeletesOver
    /\ ai <= Len(addrs)
    /\ addrs[ai] \notin existing
    /\ LET a == addrs[ai]
       IN \/ /\ Cardinality(store) < StoreCap
             /\ store' = store \cup {[id |-> FreshId(store), type |-> recordType(a),
                                      content |-> AddrString(a)]}
             /\ ops' = Append(ops, [op |-> "create", id |-> FreshId(store), addr |-> a,
                                    type |-> recordType(a), ok |-> TRUE])
             /\ ai' = ai + 1
             /\ UNCHANGED <<cfpc, cfret>>
          \/ /\ \E e \in APIErrors : ReturnOpError("error creating DNS record", e)
             /\ ops' = Append(ops, [op |-> "create", id |-> 0, addr |-> a,
                                    type |-> recordType(a), ok |-> FALSE])
             /\ UNCHANGED <<store, ai>>
    /\ UNCHANGED <<addrs, zid, records, ri, existing, store0, listed, prev>>
    /\ UNCHANGED <<webVars, dVars, jVars, nVars, outOfBand>>

\* Line 103: both loops are over.
CF_Done ==
    /\ cfpc = "loops"
    /\ DeletesOver
    /\ ai > Len(addrs)
    /\ ReturnSet(NilE)
    /\ UNCHANGED <<store, addrs, zid, records, ri, ai, existing, ops, store0,
                   listed, prev>>
    /\ UNCHANGED <<webVars, dVars, jVars, nVars, outOfBand>>

\* The steps inside SetDNSRecords.
CFSteps ==
    \/ CF_ZoneListFails
    \/ CF_Zone
    \/ CF_List
    \/ CF_RecordParseError
    \/ CF_RecordKeep
    \/ CF_RecordDelete
    \/ CF_AddrSkip
    \/ CF_AddrCreate
    \/ CF_Done


----------------------------------------------------------------------------
\* client.RunDDNS and RunDaemon

\* time.Minute, in seconds.
Minute == 60
NoTicker == 0
\* The intervals RunDaemon is called with.
Intervals == (0 - MaxInterval)..MaxInterval

InitDaemonIdle ==
    /\ interval = Minute
    /\ ticker = NoTicker
    /\ dpc = "none"
    /\ rpc = "idle"
    /\ ctxDone = FALSE
    /\ tick = FALSE
    /\ missed = FALSE
    /\ newIPs = [addrs |-> <<>>, err |-> NilE]
    /\ runErr = NilE
    /\ setCalls = <<>>

\* RunDaemon is called; the governing context may be cancelled already.
InitDaemon ==
    /\ interval = Minute
    /\ ticker = NoTicker
    /\ dpc = "start"
    /\ rpc = "idle"
    /\ ctxDone \in BOOLEAN
    /\ tick = FALSE
    /\ missed = FALSE
    /\ newIPs = [addrs |-> <<>>, err |-> NilE]
    /\ runErr = NilE
    /\ setCalls = <<>>

\* What the client's resolver can return: any short list of addresses, with a
\* nil error or with an error (a resolver may return partial results with one).
ResolverResults ==
    {[addrs |-> a, err |-> e] :
        a \in AddrLists(MaxResolved), e \in {NilE, Err("resolver", "other"), Err("resolver", "authn")}}

\* errors.As(err, &authentication) && authentication.IsAuthenticationError()
IsAuthenticationError(e) == e.class = "authn"
\* errors.As(err, &authorization) && authorization.IsAuthorizationError()
IsAuthorizationError(e) == e.class = "authz"

\* A slip: only the authentication check is made.
StopsDaemonAuthnOnly(e) == IsAuthenticationError(e)
\* A slip: any error ends the daemon.
StopsDaemonAnyError(e) == e # NilE
\* Lines 323-336: whether RunDaemon returns after a cycle that returned e.
StopsDaemon(e) == IsAuthenticationError(e) \/ IsAuthorizationError(e)

\* A slip: only an interval that time.NewTicker rejects is replaced.
EffectiveIntervalPositive(d) == IF d <= 0 THEN Minute ELSE d
\* Lines 309-311: the interval the ticker is made with.
EffectiveInterval(d) == IF d < Minute THEN Minute ELSE d

\* RunDDNS is entered.
EnterRunDDNS ==
    /\ dpc' = "running"
    /\ rpc' = "resolve"
    /\ setCalls' = <<>>
    /\ missed' = FALSE

\* A slip: an error that comes with addresses does not end the cycle.
ResolveFailedUnlessPartial(res) == res.err # NilE /\ res.addrs = <<>>
\* Line 283: the resolver's error ends the cycle.
ResolveFailed(res) == res.err # NilE

\* A slip: the first cycle waits for a tick like the later ones.
D_StartOnTick ==
    /\ dpc = "start"
    /\ tick
    /\ tick' = FALSE
    /\ ticker' = EffectiveInterval(interval)
    /\ EnterRunDDNS
    /\ UNCHANGED <<webVars, jVars, nVars, interval, cfVars, ctxDone, newIPs, runErr>>

\* Lines 309-319: the ticker is made and the first cycle starts.
D_Start ==
    /\ dpc = "start"
    /\ ticker' = EffectiveInterval(interval)
    /\ EnterRunDDNS
    /\ UNCHANGED <<webVars, jVars, nVars, interval, cfVars, ctxDone, tick, newIPs, runErr>>

\* Lines 282-288: the resolver returns; on an error RunDDNS returns, otherwise
\* it calls SetDNSRecords with the addresses.
R_Resolve ==
    /\ rpc = "resolve"
    /\ \E res \in ResolverResults :
          /\ newIPs' = res
          /\ IF ResolveFailed(res)
             THEN /\ runErr' = Wrap("error getting IPs", res.err)
                  /\ rpc' = "idle"
                  /\ dpc' = "check"
                  /\ UNCHANGED <<cfVars, setCalls>>
             ELSE /\ rpc' = "set"
                  /\ setCalls' = Append(setCalls, res.addrs)
                  /\ EnterSet(res.addrs)
                  /\ UNCHANGED <<dpc, runErr>>
    /\ UNCHANGED <<webVars, jVars, nVars, interval, ticker, missed, ctxDone, tick>>

\* Lines 288-291: SetDNSRecords returned, RunDDNS returns.
R_SetReturned ==
    /\ rpc = "set"
    /\ cfpc = "returned"
    /\ runErr' = IF cfret # NilE THEN Wrap("error updating with new IPs", cfret)
                 ELSE NilE
    /\ rpc' = "idle"
    /\ dpc' = "check"
    /\ LeaveSet
    /\ UNCHANGED <<webVars, jVars, nVars, interval, ticker, missed, ctxDone, tick, newIPs, setCalls>>

\* Lines 320-336: the cycle's error is logged and classified.
D_Check ==
    /\ dpc = "check"
    /\ dpc' = IF StopsDaemon(runErr) THEN "stopped" ELSE "select"
    /\ UNCHANGED <<webVars, jVars, nVars, interval, ticker, missed, cfVars, rpc, ctxDone, tick, newIPs, runErr, setCalls>>

\* A slip: the cancellation is seen only once a tick has arrived.
D_SelectDoneOnTick ==
    /\ dpc = "select"
    /\ ctxDone
    /\ tick
    /\ dpc' = "stopped"
    /\ UNCHANGED <<webVars, jVars, nVars, interval, ticker, missed, cfVars, rpc, ctxDone, tick, newIPs, runErr, setCalls>>

\* Lines 337-339: the select takes ctx.Done() and RunDaemon returns.
D_SelectDone ==
    /\ dpc = "select"
    /\ ctxDone
    /\ dpc' = "stopped"
    /\ UNCHANGED <<webVars, jVars, nVars, interval, ticker, missed, cfVars, rpc, ctxDone, tick, newIPs, runErr, setCalls>>

\* A slip: the loop goes round without waiting for a tick.
D_SelectNoWait ==
    /\ dpc = "select"
    /\ tick' = FALSE
    /\ EnterRunDDNS
    /\ UNCHANGED <<webVars, jVars, nVars, interval, ticker, cfVars, ctxDone, newIPs, runErr>>

\* Lines 337-342, 319: the select takes a tick and the next cycle starts.
D_SelectTick ==
    /\ dpc = "select"
    /\ tick
    /\ tick' = FALSE
    /\ EnterRunDDNS
    /\ UNCHANGED <<webVars, jVars, nVars, interval, ticker, cfVars, ctxDone, newIPs, runErr>>

\* A slip: the timer starts a cycle itself, whatever the loop is doing.
TickRunsCycle ==
    /\ dpc \in {"running", "check", "select"}
    /\ EnterRunDDNS
    /\ UNCHANGED <<webVars, jVars, nVars, interval, ticker, cfVars, ctxDone, tick, newIPs, runErr>>

\* The ticker fires: ticker.C holds one tick, a tick that finds it full is dropped.
\* ticker.Stop() runs when RunDaemon returns.
Tick ==
    /\ dpc \in {"running", "check", "select"}
    /\ IF tick THEN missed' = TRUE /\ UNCHANGED tick
               ELSE tick' = TRUE /\ UNCHANGED missed
    /\ UNCHANGED <<webVars, jVars, nVars, interval, ticker, cfVars, dpc, rpc, ctxDone, newIPs, runErr, setCalls>>

\* The governing context is cancelled.
Cancel ==
    /\ dpc # "none"
    /\ ~ctxDone
    /\ ctxDone' = TRUE
    /\ UNCHANGED <<webVars, jVars, nVars, interval, ticker, missed, cfVars, dpc, rpc, tick, newIPs, runErr, setCalls>>

----------------------------------------------------------------------------
\* joinResolver.Resolve

\* What a member's Resolve can return: any addresses, with or without an error.
MemberResults ==
    {[addrs |-> a, err |-> e] : a \in {<<>>, <<Home>>, <<Home, Six>>},
                                e \in {NilE, Err("resolver", "other")}}

Members == 1..MaxMembers
NoMember == [pc |-> "none", r |-> [addrs |-> <<>>, err |-> NilE]]
IsErr(e) == e # NilE

\* A slip: only the first collected error is returned.
ErrorsJoinFirst(es) == IF es = <<>> THEN NilE ELSE es[1]
\* errors.Join: nil values are discarded; nil when no value is left.
ErrorsJoin(es) ==
    LET ne == SelectSeq(es, IsErr)
    IN IF ne = <<>> THEN NilE ELSE [msg |-> "joined", class |-> "other", errs |-> ne]

InitJoinIdle ==
    /\ resolvers = 0
    /\ jpc = "idle"
    /\ jnext = 1
    /\ jtask = [i \in Members |-> NoMember]
    /\ jresults = <<>>
    /\ jwg = 0
    /\ jaddrs = <<>>
    /\ jerrs = <<>>
    /\ jret = [addrs |-> <<>>, err |-> NilE]

InitJoin ==
    /\ resolvers \in 0..MaxMembers
    /\ jpc = "spawn"
    /\ jnext = 1
    /\ jtask = [i \in Members |-> NoMember]
    /\ jresults = <<>>
    /\ jwg = 0
    /\ jaddrs = <<>>
    /\ jerrs = <<>>
    /\ jret = [addrs |-> <<>>, err |-> NilE]

\* A slip: the loop calls the members one after the other.
J_SpawnInTurn ==
    /\ jpc = "spawn"
    /\ jnext <= resolvers
    /\ \A i \in 1..(jnext - 1) : jtask[i].pc = "done"
    /\ jwg' = jwg + 1
    /\ jtask' = [jtask EXCEPT ![jnext].pc = "resolve"]
    /\ jnext' = jnext + 1
    /\ UNCHANGED <<webVars, cfVars, dVars, nVars, resolvers, jpc, jresults, jaddrs, jerrs, jret>>

\* Lines 373-380: one pass of the loop: wg.Add(1) and the go statement.
J_Spawn ==
    /\ jpc = "spawn"
    /\ jnext <= resolvers
    /\ jwg' = jwg + 1
    /\ jtask' = [jtask EXCEPT ![jnext].pc = "resolve"]
    /\ jnext' = jnext + 1
    /\ UNCHANGED <<webVars, cfVars, dVars, nVars, resolvers, jpc, jresults, jaddrs, jerrs, jret>>

\* Line 373: the loop is over.
J_SpawnDone ==
    /\ jpc = "spawn"
    /\ jnext > resolvers
    /\ jpc' = "wait"
    /\ UNCHANGED <<webVars, cfVars, dVars, nVars, resolvers, jnext, jtask, jresults, jwg, jaddrs,
                   jerrs, jret>>

\* Line 378: the Resolve of member i returns.
JT_Resolve(i) ==
    /\ jtask[i].pc = "resolve"
    /\ \E res \in MemberResults :
          jtask' = [jtask EXCEPT ![i] = [pc |-> "send", r |-> res]]
    /\ UNCHANGED <<webVars, cfVars, dVars, nVars, resolvers, jpc, jnext, jresults, jwg, jaddrs,
                   jerrs, jret>>

\* Lines 376, 379: the send, which waits for room in the channel of capacity
\* len(r.resolvers), then wg.Done().
JT_Send(i) ==
    /\ jtask[i].pc = "send"
    /\ Len(jresults) < resolvers
    /\ jresults' = Append(jresults, jtask[i].r)
    /\ jwg' = jwg - 1
    /\ jtask' = [jtask EXCEPT ![i].pc = "done"]
    /\ UNCHANGED <<webVars, cfVars, dVars, nVars, resolvers, jpc, jnext, jaddrs, jerrs, jret>>

\* Lines 382-383: wg.Wait() returns, close(results).
J_Wait ==
    /\ jpc = "wait"
    /\ jwg = 0
    /\ jpc' = "range"
    /\ UNCHANGED <<webVars, cfVars, dVars, nVars, resolvers, jnext, jtask, jresults, jwg, jaddrs,
                   jerrs, jret>>

\* Lines 384-387: the range loop takes the oldest result.
J_Recv ==
    /\ jpc = "range"
    /\ jresults # <<>>
    /\ jaddrs' = jaddrs \o Head(jresults).addrs
    /\ jerrs' = Append(jerrs, Head(jresults).err)
    /\ jresults' = Tail(jresults)
    /\ UNCHANGED <<webVars, cfVars, dVars, nVars, resolvers, jpc, jnext, jtask, jwg, jret>>

\* Line 388: the closed channel is empty: return addrs, errors.Join(errs...).
J_Return ==
    /\ jpc = "range"
    /\ jresults = <<>>
    /\ jret' = [addrs |-> jaddrs, err |-> ErrorsJoin(jerrs)]
    /\ jpc' = "returned"
    /\ UNCHANGED <<webVars, cfVars, dVars, nVars, resolvers, jnext, jtask, jresults, jwg, jaddrs,
                   jerrs>>

NextJoin ==
    \/ J_Spawn
    \/ J_SpawnDone
    \/ \E i \in Members : JT_Resolve(i)
    \/ \E i \in Members : JT_Send(i)
    \/ J_Wait
    \/ J_Recv
    \/ J_Return

----------------------------------------------------------------------------
\* New and its options

\* The resolvers a caller can hand to UsingResolver: nil, the package's
\* defaultResolver (an interface resolver) and two web resolvers.
NilResolver == "nil"
defaultResolver == "InterfaceResolver"
WebResolvers == {"w1", "w2"}
\* The *http.Client values: nil, http.DefaultClient and two of the caller's.
NilClient == "nil"
DefaultClient == "http.DefaultClient"
CallerClients == {"h1", "h2"}
\* The loggers: nil, the package's discard and one of the caller's.
NilLogger == "nil"
discard == "discard"

UsingResolver(r) == [opt |-> "UsingResolver", arg |-> r]
UsingHTTPClient(h) == [opt |-> "UsingHTTPClient", arg |-> h]
WithLogger(l) == [opt |-> "WithLogger", arg |-> l]
ClientOptions ==
    {UsingResolver(r) : r \in {NilResolver, defaultResolver} \cup WebResolvers}
    \cup {UsingHTTPClient(h) : h \in {NilClient} \cup CallerClients}
    \cup {WithLogger(l) : l \in {NilLogger, "l1"}}
OptionLists == UNION {[1..n -> ClientOptions] : n \in 0..MaxOptions}

InitNewIdle ==
    /\ options = <<>>
    /\ npc = "none"
    /\ oi = 1
    /\ client = [Resolver |-> defaultResolver, logger |-> NilLogger]
    /\ httpClient = [w \in WebResolvers |-> NilClient]
    /\ provider = [httpClient |-> DefaultClient, logger |-> discard]

\* New has made the client and is about to apply the options; the web
\* resolvers and the Cloudflare provider are fresh.
InitNew ==
    /\ options \in OptionLists
    /\ npc = "options"
    /\ oi = 1
    /\ client = [Resolver |-> defaultResolver, logger |-> NilLogger]
    /\ httpClient = [w \in WebResolvers |-> NilClient]
    /\ provider = [httpClient |-> DefaultClient, logger |-> discard]

\* Lines 257-262: the resolver whose httpClient field the option sets: the
\* client's resolver when it is a *webResolver.
HTTPClientTargets(r) == IF r \in WebResolvers THEN {r} ELSE {}

\* Lines 227-235: the option of UsingResolver is applied.
N_UsingResolver ==
    /\ npc = "options"
    /\ oi <= Len(options)
    /\ options[oi].opt = "UsingResolver"
    /\ client' = [client EXCEPT !.Resolver = IF options[oi].arg = NilResolver THEN defaultResolver
                                   ELSE options[oi].arg]
    /\ oi' = oi + 1
    /\ UNCHANGED <<webVars, cfVars, dVars, jVars, options, npc, httpClient, provider>>

\* Lines 247-271: the option of UsingHTTPClient is applied.
N_UsingHTTPClient ==
    /\ npc = "options"
    /\ oi <= Len(options)
    /\ options[oi].opt = "UsingHTTPClient"
    /\ LET h == IF options[oi].arg = NilClient THEN DefaultClient ELSE options[oi].arg
       IN /\ httpClient' = [w \in WebResolvers |->
                               IF w \in HTTPClientTargets(client.Resolver) THEN h
                               ELSE httpClient[w]]
          /\ provider' = [provider EXCEPT !.httpClient = h]
    /\ oi' = oi + 1
    /\ UNCHANGED <<webVars, cfVars, dVars, jVars, options, npc, client>>

\* Lines 240-245: the option of WithLogger is applied.
N_WithLogger ==
    /\ npc = "options"
    /\ oi <= Len(options)
    /\ options[oi].opt = "WithLogger"
    /\ client' = [client EXCEPT !.logger = options[oi].arg]
    /\ oi' = oi + 1
    /\ UNCHANGED <<webVars, cfVars, dVars, jVars, options, npc, httpClient, provider>>

\* Lines 209-211, 391-411: the options are applied; setLog hands the logger to
\* the client and the provider, and New returns.
N_Return ==
    /\ npc = "options"
    /\ oi > Len(options)
    /\ LET l == IF client.logger = NilLogger THEN discard ELSE client.logger
       IN /\ client' = [client EXCEPT !.logger = l]
          /\ provider' = [provider EXCEPT !.logger = l]
    /\ npc' = "returned"
    /\ UNCHANGED <<webVars, cfVars, dVars, jVars, options, oi, httpClient>>

NextNew == N_UsingResolver \/ N_UsingHTTPClient \/ N_WithLogger \/ N_Return

\* part_004 lines 169-172: the client a lookup of web resolver w makes its
\* request with.
LookupClient(w) == IF httpClient[w] = NilClient THEN DefaultClient ELSE httpClient[w]

----------------------------------------------------------------------------
\* The specifications.

InitW ==
    /\ InitWeb /\ store = {} /\ InitCFIdle /\ InitDaemonIdle /\ InitJoinIdle
    /\ InitNewIdle
SpecWeb == InitW /\ [][NextWeb]_vars

\* One call of Resolve of the reference version, which holds parsed URLs.
InitWRef ==
    /\ impl = "reference"
    /\ serviceURLs \in {l \in URLLists : \A i \in 1..Len(l.urls) : l.urls[i].ok}
    /\ wpc = "call"
    /\ useCount = 0
    /\ waitFor = 0
    /\ spawned = 0
    /\ task = [i \in TaskIds |-> NoTask]
    /\ results = <<>>
    /\ closed = FALSE
    /\ wg = 0
    /\ cpc = "none"
    /\ resultCount = 0
    /\ errs = <<>>
    /\ ip = NoAddr
    /\ ret = [addrs |-> <<>>, err |-> NilErr, joined |-> <<>>]
    /\ recvd = <<>>
    /\ wctx = Background
    /\ store = {} /\ InitCFIdle /\ InitDaemonIdle /\ InitJoinIdle
    /\ InitNewIdle
NextWebRef ==
    \/ W_NoServices
    \/ W_Setup
    \/ W_Spawn
    \/ W_SpawnCloser
    \/ \E i \in TaskIds : T_Lookup(i)
    \/ \E i \in TaskIds : T_Send(i)
    \/ C_Close
    \/ W_Recv
    \/ W_Drained
SpecWebRef == InitWRef /\ [][NextWebRef]_vars

\* Every goroutine of the call keeps running, and every lookup ends (line 160
\* bounds it by 15 seconds).
WebFairness ==
    /\ WF_vars(W_NoServices \/ W_ParseError \/ W_Setup \/ W_Spawn \/ W_SpawnCloser
                   \/ W_Recv \/ W_Drained)
    /\ \A i \in TaskIds : WF_vars(T_Lookup(i)) /\ WF_vars(T_Send(i))
    /\ WF_vars(C_Close)
FairSpecWeb == SpecWeb /\ WebFairness

\* One call of Resolve whose caller may cancel the context.
NextWebCancel == NextWeb \/ W_Cancel
SpecWebCancel == InitW /\ [][NextWebCancel]_vars

InitCF ==
    /\ InitWebIdle /\ store \in Stores(MaxInitial) /\ InitCFIdle /\ InitDaemonIdle
    /\ InitJoinIdle /\ InitNewIdle
NextCF == CF_Call \/ CF_CallAgain \/ CF_External \/ CFSteps
SpecCF == InitCF /\ [][NextCF]_vars

InitD ==
    /\ InitWebIdle /\ store \in Stores(MaxDaemonInitial) /\ InitCFIdle /\ InitDaemon
    /\ InitJoinIdle /\ InitNewIdle
DaemonSteps ==
    \/ D_Start
    \/ R_Resolve
    \/ R_SetReturned
    \/ D_Check
    \/ D_SelectDone
    \/ D_SelectTick
Next == DaemonSteps \/ CFSteps \/ Tick \/ Cancel
Spec == InitD /\ [][Next]_vars

InitJ ==
    /\ InitWebIdle /\ store = {} /\ InitCFIdle /\ InitDaemonIdle
    /\ InitJoin /\ InitNewIdle
SpecJoin == InitJ /\ [][NextJoin]_vars

\* One call of New, for every short list of options.
InitN ==
    /\ InitWebIdle /\ store = {} /\ InitCFIdle /\ InitDaemonIdle /\ InitJoinIdle
    /\ InitNew
SpecNew == InitN /\ [][NextNew]_vars

\* The entry of RunDaemon for every interval it can be called with.
InitInterval ==
    /\ InitWebIdle /\ store = {} /\ InitCFIdle /\ InitJoinIdle /\ InitNewIdle
    /\ interval \in Intervals
    /\ ticker = NoTicker
    /\ dpc = "start"
    /\ rpc = "idle"
    /\ ctxDone \in BOOLEAN
    /\ tick = FALSE
    /\ missed = FALSE
    /\ newIPs = [addrs |-> <<>>, err |-> NilE]
    /\ runErr = NilE
    /\ setCalls = <<>>
NextInterval == D_Start
SpecInterval == InitInterval /\ [][NextInterval]_vars

\* Every started step of the program ends; the select takes a ready ctx.Done()
\* sooner or later; nothing is assumed of the ticker.
FairSpecCancel ==
    /\ Spec
    /\ WF_vars(D_Start) /\ WF_vars(R_Resolve) /\ WF_vars(CFSteps)
    /\ WF_vars(R_SetReturned) /\ WF_vars(D_Check)
    /\ SF_vars(D_SelectDone)

\* Every started step of the program ends, the ticker keeps firing and the
\* select takes a tick that stays ready.
FairSpecTimer ==
    /\ Spec
    /\ WF_vars(D_Start) /\ WF_vars(R_Resolve) /\ WF_vars(CFSteps)
    /\ WF_vars(R_SetReturned) /\ WF_vars(D_Check)
    /\ WF_vars(Tick) /\ WF_vars(D_SelectTick)

----------------------------------------------------------------------------
\* The claims.

AddrSet(st) == {ParseAddr(r.content) : r \in st}
\* How many operations of the call are deletes of record i, creates for address a.
Deletes(i) == Cardinality({k \in 1..Len(ops) : ops[k].op = "delete" /\ ops[k].id = i})
Creates(a) == Cardinality({k \in 1..Len(ops) : ops[k].op = "create" /\ ops[k].addr = a})
Fatal(e) == e.class \in {"authn", "authz"}
\* The lookups of the call that have ended, and those that ended without error.
Looked == {i \in TaskIds : task[i].pc \in {"send", "done"}}
SuccessfulLookups == {i \in Looked : task[i].r.err = NilErr}
\* The lookup tasks the call has started.
Started == {i \in TaskIds : task[i].pc # "none"}
Min3(n) == IF n < 3 THEN n ELSE 3
\* How often address a occurs in a list, and in the lists the first k members
\* returned.
CountIn(seq, a) == Cardinality({k \in 1..Len(seq) : seq[k] = a})
RECURSIVE MemberCount(_, _)
MemberCount(a, k) ==
    IF k = 0 THEN 0 ELSE CountIn(jtask[k].r.addrs, a) + MemberCount(a, k - 1)
\* The results in the channel and those received, and the tasks that ended
\* without their result being in either.
Kept == results \o recvd
Dropped == {i \in TaskIds : task[i].pc = "done"
                             /\ \A k \in 1..Len(Kept) : Kept[k].from # i}
AllURLsParse == \A i \in 1..Len(serviceURLs.urls) : serviceURLs.urls[i].ok
IsSuccess(r) == r.err = NilErr
IsFailure(r) == r.err # NilErr
\* netip.Addr.IsLoopback: 127.0.0.0/8 or ::1.
IsLoopback(a) ==
    \/ Is4(a) /\ a[2] = 127
    \/ Is6(a) /\ a = IP6(<<0, 0, 0, 0, 0, 0, 0, 1>>)

\* C1: with two or more endpoints, a Resolve that returns a nil error returns
\* exactly one address, and at least two lookups of the call ended without
\* error with that address.
C1_TwoLookupsAgree ==
    (wpc = "returned" /\ ret.err = NilErr /\ Len(serviceURLs.urls) >= 2) =>
        /\ Len(ret.addrs) = 1
        /\ Cardinality({i \in TaskIds :
                           /\ task[i].pc \in {"send", "done"}
                           /\ task[i].r.err = NilErr
                           /\ task[i].r.addr = ret.addrs[1]}) >= 2

\* Resolve succeeded with three endpoints although one lookup had returned
\* another address.
C1_Witness ==
    /\ wpc = "returned" /\ ret.err = NilErr /\ Len(serviceURLs.urls) >= 3
    /\ \E i \in TaskIds : task[i].pc = "done" /\ task[i].r.err = NilErr
                          /\ task[i].r.addr # ret.addrs[1]

\* C2: a Resolve that returns an error returns no address.
C2_ErrorMeansNoAddress ==
    (wpc = "returned" /\ ret.err # NilErr) => ret.addrs = <<>>

\* Resolve failed after it had received a successful result.
C2_Witness ==
    /\ wpc = "returned" /\ ret.err # NilErr /\ ip # NoAddr
    /\ resultCount >= 1

\* C3: after SetDNSRecords returns nil the addresses of the provider's records
\* are the desired addresses.
C3_Converges ==
    (cfpc = "returned" /\ cfret = NilE) => AddrSet(store) = Range(addrs)

\* C4: a call on a store whose addresses are the desired ones already, and a
\* call that repeats a successful call with the same desired set on a store
\* nobody else changed, issue no create and no delete.
C4_Idempotent ==
    (/\ cfpc # "idle"
     /\ \/ AddrSet(store0) = Range(addrs)
        \/ prev.ret = NilE /\ Range(prev.addrs) = Range(addrs) /\ ~outOfBand)
    => ops = <<>>

\* C5: a successful call issues one delete for each existing record whose
\* address is not desired and none for the others, one create for each desired
\* address that no existing record holds and none for the others, of kind A
\* for an IPv4 and AAAA for an IPv6 address.
C5_ExactOperations ==
    (cfpc = "returned" /\ cfret = NilE) =>
        /\ \A r \in store0 :
              Deletes(r.id) = IF ParseAddr(r.content) \in Range(addrs) THEN 0 ELSE 1
        /\ \A a \in DesiredAddrs :
              Creates(a) = IF a \in Range(addrs) /\ a \notin AddrSet(store0) THEN 1 ELSE 0
        /\ \A k \in 1..Len(ops) :
              ops[k].op = "create" => ops[k].type = IF Is4(ops[k].addr) THEN "A" ELSE "AAAA"

\* C6: within one call no create is issued before a delete.
C6_DeletesBeforeCreates ==
    \A j, k \in 1..Len(ops) :
        (ops[j].op = "create" /\ ops[k].op = "delete") => k < j

\* A call that deleted a record and then created one has returned nil.
C6_Witness ==
    /\ cfpc = "returned" /\ cfret = NilE
    /\ \E j, k \in 1..Len(ops) : ops[k].op = "delete" /\ ops[j].op = "create"

\* C7: after a cycle whose error is an authentication or authorization
\* failure RunDaemon returns, and once it has returned no cycle starts.
C7_AuthFailureStops ==
    [][/\ (dpc = "check" /\ Fatal(runErr)) => (dpc' \in {"check", "stopped"} /\ rpc' = "idle")
       /\ dpc = "stopped" => (dpc' = "stopped" /\ rpc' = "idle")]_vars

\* RunDaemon returned after an authorization failure while a tick was waiting.
C7_Witness ==
    dpc = "stopped" /\ runErr.class = "authz" /\ tick /\ ~ctxDone

\* C8: once the governing context is cancelled RunDaemon returns, whether or
\* not the ticker fires again.
C8_CancelStops == ctxDone ~> (dpc = "stopped")

\* RunDaemon returned on the cancellation, after a cycle without a fatal error
\* and with no tick waiting.
C8_Witness ==
    dpc = "stopped" /\ ctxDone /\ ~tick /\ ~Fatal(runErr)

\* C9: after a cycle that returned no error, or an error that is neither an
\* authentication nor an authorization failure, another cycle starts unless
\* the context is cancelled.
C9_NonFatalContinues ==
    (dpc = "check" /\ ~Fatal(runErr)) ~> (ctxDone \/ rpc = "resolve")

\* A cycle has started after a cycle that returned a non-fatal error.
C9_Witness ==
    rpc = "resolve" /\ runErr.class = "other" /\ ~ctxDone

\* C10: a cycle whose resolver returned an error returns an error without a
\* call of SetDNSRecords; SetDNSRecords is called only after a resolution with
\* a nil error, once, with the resolved addresses.
C10_ResolveErrorAborts ==
    /\ (dpc = "check" /\ newIPs.err # NilE) => (runErr # NilE /\ setCalls = <<>>)
    /\ setCalls # <<>> => (newIPs.err = NilE /\ setCalls = <<newIPs.addrs>>)
    /\ cfpc # "idle" => (rpc = "set" /\ newIPs.err = NilE /\ addrs = newIPs.addrs)

\* A cycle returned after its resolver returned an address together with an
\* error.
C10_Witness ==
    dpc = "check" /\ newIPs.err # NilE /\ newIPs.addrs # <<>> /\ setCalls = <<>>

\* C11: with a list of one endpoint, Resolve returns a nil error exactly when
\* the one lookup ended without error, and it then returns exactly the address
\* of that lookup.
C11_SingleEndpoint ==
    (wpc = "returned" /\ ~serviceURLs.isNil /\ Len(serviceURLs.urls) = 1) =>
        /\ (ret.err = NilErr) <=> (0 \in Looked /\ task[0].r.err = NilErr)
        /\ ret.err = NilErr => ret.addrs = <<task[0].r.addr>>

\* Resolve with one endpoint returned the address its lookup produced.
C11_Witness ==
    /\ wpc = "returned" /\ Len(serviceURLs.urls) = 1 /\ ret.err = NilErr
    /\ task[0].pc = "done" /\ task[0].r = [addr |-> Home, err |-> NilErr]
    /\ ret.addrs = <<Home>>

\* C12: with three lookups of which two ended with the same address and the
\* third with an error, a Resolve that has returned has returned that address
\* with a nil error, whatever the order in which the results arrived.
C12_OneFailureOfThree ==
    \A a \in {Home, Other, Loop} :
        (/\ wpc = "returned" /\ Len(serviceURLs.urls) >= 3
         /\ Looked = TaskIds
         /\ \E i \in TaskIds :
               /\ task[i].r.err # NilErr
               /\ \A j \in TaskIds \ {i} : task[j].r = [addr |-> a, err |-> NilErr])
        => (ret.addrs = <<a>> /\ ret.err = NilErr)

\* Resolve succeeded after the failure was the first result to arrive.
C12_Witness ==
    /\ wpc = "returned" /\ Len(serviceURLs.urls) = 3 /\ Looked = TaskIds
    /\ ret.addrs = <<Home>> /\ ret.err = NilErr
    /\ Len(recvd) = 3 /\ recvd[1].err # NilErr
    /\ recvd[2].addr = Home /\ recvd[3].addr = Home

\* C13: a Resolve that fails after all its lookups reported fails with
\* "not enough resolvers responded without errors" exactly when fewer lookups
\* than needed (one with one endpoint, two otherwise) ended without error, and
\* with "IP resolvers did not agree on our IP" otherwise.
C13_FailureKind ==
    (wpc = "returned" /\ ret.err \in {"not enough resolvers responded without errors",
                                      "IP resolvers did not agree on our IP"}) =>
        /\ Looked = Started
        /\ (ret.err = "not enough resolvers responded without errors")
             <=> (Cardinality(SuccessfulLookups)
                     < (IF Len(serviceURLs.urls) = 1 THEN 1 ELSE 2))

\* Resolve reported a disagreement after exactly two lookups succeeded and
\* one failed.
C13_Witness ==
    /\ wpc = "returned" /\ ret.err = "IP resolvers did not agree on our IP"
    /\ Cardinality(SuccessfulLookups) = 2 /\ Cardinality(Looked) = 3

\* C14: with two or more endpoints, a Resolve that returns a nil error has
\* received at least two results without error, and the first two of them, in
\* the order of arrival, carry the same address.
C14_FirstTwoAgree ==
    (wpc = "returned" /\ ret.err = NilErr /\ Len(serviceURLs.urls) >= 2) =>
        LET s == SelectSeq(recvd, IsSuccess)
        IN Len(s) >= 2 /\ s[1].addr = s[2].addr

C18_NoLoopback ==
    (wpc = "returned" /\ ret.err = NilErr) =>
        \A k \in 1..Len(ret.addrs) : ~IsLoopback(ret.addrs[k])

\* C19: in a call of SetDNSRecords a failed delete or create is the last
\* delete or create of the call, and the call has returned an error.
C19_StopsAtFirstFailure ==
    \A k \in 1..Len(ops) :
        ~ops[k].ok => (k = Len(ops) /\ cfpc = "returned" /\ cfret # NilE)

\* The call returned after a failed delete although an address was still to
\* be created.
C19_Witness ==
    /\ cfpc = "returned" /\ cfret # NilE
    /\ Len(ops) >= 1 /\ ops[Len(ops)].op = "delete" /\ ~ops[Len(ops)].ok
    /\ \E a \in Range(addrs) : a \notin AddrSet(store)

\* C20: when the provider's records were changed from outside after a call,
\* the next call that returns nil leaves the addresses of the provider's
\* records equal to the desired addresses.
C20_PicksUpOutOfBandChange ==
    (cfpc = "returned" /\ cfret = NilE /\ outOfBand) =>
        AddrSet(store) = Range(addrs)

\* C16: what joinResolver.Resolve returns holds every address as often as the
\* lists of all members together hold it, those of members that returned an
\* error included, and its error is non-nil exactly when some member returned
\* a non-nil error.
C16_JoinIsConcatenation ==
    jpc = "returned" =>
        /\ \A a \in {Home, Other, Loop, Six} :
               CountIn(jret.addrs, a) = MemberCount(a, resolvers)
        /\ Len(jret.addrs) = MemberCount(Home, resolvers) + MemberCount(Six, resolvers)
        /\ (jret.err # NilE) <=> (\E i \in 1..resolvers : jtask[i].r.err # NilE)

\* A Join returned the address of two members twice, one of them having
\* returned it together with an error, after a first result without error.
C16_Witness ==
    /\ jpc = "returned" /\ resolvers = 3
    /\ CountIn(jret.addrs, Home) = 2 /\ jret.err # NilE
    /\ jerrs[1] = NilE
    /\ \E i \in 1..resolvers : jtask[i].r = [addrs |-> <<Home>>, err |-> Err("resolver", "other")]

\* C17: the loop of joinResolver.Resolve can start the next member whatever
\* the members started before are doing, and Resolve returns only when every
\* member has returned.
C17_ConcurrentToCompletion ==
    /\ (jpc = "spawn" /\ jnext <= resolvers) => ENABLED J_Spawn
    /\ jpc \in {"range", "returned"} =>
           \A i \in 1..resolvers : jtask[i].pc = "done"

\* Three members are inside their Resolve at the same time.
C17_Witness ==
    /\ resolvers = 3 /\ jpc = "wait"
    /\ \A i \in 1..resolvers : jtask[i].pc = "resolve"

\* C21: every call of webResolver.Resolve returns in the end, each lookup
\* being bound to end.
C21_ResolveReturns == <>(wpc = "returned")

\* C22: the error of a Resolve that fails by disagreement or by too few
\* successes joins the error of every failed lookup result the range loop
\* received.
C22_ErrorJoinsFailures ==
    (wpc = "returned" /\ ret.err \in {"not enough resolvers responded without errors",
                                      "IP resolvers did not agree on our IP"}) =>
        ret.joined = ErrorsOf(SelectSeq(recvd, IsFailure))

\* C22, amended: the error of a Resolve that fails by too few successes joins
\* the error of every failed lookup of the call, in the order received; the
\* error of a Resolve that fails by disagreement joins none.
C22_InsufficientJoinsFailures ==
    /\ (wpc = "returned" /\ ret.err = "not enough resolvers responded without errors") =>
           /\ ret.joined = ErrorsOf(SelectSeq(recvd, IsFailure))
           /\ Len(ret.joined) = Cardinality(Looked \ SuccessfulLookups)
    /\ (wpc = "returned" /\ ret.err = "IP resolvers did not agree on our IP") =>
           ret.joined = <<>>

\* Resolve failed by too few successes after two different lookup failures.
C22_Witness ==
    /\ wpc = "returned" /\ ret.err = "not enough resolvers responded without errors"
    /\ Len(ret.joined) = 2 /\ ret.joined[1] # ret.joined[2]

\* C23: in the current web resolver every lookup task that has ended has its
\* result in the channel or received, and a Resolve that fails after the
\* channel was closed has received the result of every task.
C23_NoResultDropped ==
    /\ \A i \in TaskIds : task[i].pc = "done" =>
           \E k \in 1..Len(Kept) : Kept[k].from = i /\ Kept[k].addr = task[i].r.addr
                                    /\ Kept[k].err = task[i].r.err
    /\ closed => Len(Kept) = useCount
    /\ (wpc = "returned" /\ closed /\ ret.err # NilErr) => Len(recvd) = useCount

\* Three results wait in the channel, none received yet.
C23_Witness ==
    wpc = "range" /\ Len(results) = 3 /\ recvd = <<>> /\ useCount = 3

\* C24: in the reference version at most one result of a call is dropped; when
\* two lookups ended with the same address and the third with an error, a
\* Resolve that returns an error has lost one of the two successes and
\* reports too few successes.
C24_ReferenceDrops ==
    /\ Cardinality(Dropped) <= 1
    /\ \A a \in {Home, Other, Loop} :
          (/\ wpc = "returned" /\ ret.err # NilErr /\ Looked = TaskIds
           /\ \E i \in TaskIds :
                 /\ task[i].r.err # NilErr
                 /\ \A j \in TaskIds \ {i} : task[j].r = [addr |-> a, err |-> NilErr])
          => /\ \E d \in Dropped : task[d].r.err = NilErr
             /\ ret.err = "not enough resolvers responded without errors"

\* The reference Resolve failed although two lookups had ended with the same
\* address: one of them was dropped.
C24_Witness ==
    /\ wpc = "returned" /\ ret.err # NilErr /\ Looked = TaskIds
    /\ Cardinality({i \in TaskIds : task[i].r = [addr |-> Home, err |-> NilErr]}) = 2
    /\ \E d \in Dropped : task[d].r.addr = Home

C26_AllStartedBeforeWaiting ==
    /\ (wpc = "spawn" /\ spawned < useCount) => ENABLED W_Spawn
    /\ (wpc = "range" \/ recvd # <<>> \/ cpc # "none") =>
           (spawned = useCount /\ Started = 0..(useCount - 1))

\* Resolve waits for results while three lookups are running at the same
\* time.
C26_Witness ==
    /\ wpc = "range" /\ useCount = 3 /\ recvd = <<>>
    /\ \A i \in TaskIds : task[i].pc = "lookup"

\* C27: after Resolve has returned a nil error every lookup task it started
\* ends, the wait group reaches zero and the channel is closed; the channel,
\* once closed, is not closed again.
C27_TasksEndAfterReturn ==
    /\ (wpc = "returned" /\ ret.err = NilErr) ~>
           (/\ \A i \in Started : task[i].pc = "done"
            /\ wg = 0 /\ closed /\ cpc = "done")
    /\ [](closed <=> cpc = "done")
    /\ [][closed => (closed' /\ cpc' = "done")]_vars

\* Resolve returned early and everything has ended: the channel is closed
\* with a result nobody received.
C27_Witness ==
    /\ wpc = "returned" /\ ret.err = NilErr /\ closed /\ wg = 0
    /\ results # <<>> /\ \A i \in TaskIds : task[i].pc = "done"

\* A cycle starts: RunDDNS is entered.
CycleStarts == rpc # "resolve" /\ rpc' = "resolve"

\* C28: once the governing context is cancelled RunDaemon starts no cycle.
C28_NoCycleOnceCancelled ==
    [][ctxDone => ~CycleStarts]_vars

\* C28, amended: once the governing context is cancelled a cycle starts only
\* as the first cycle of a RunDaemon called with a cancelled context, or by
\* the select taking a tick that was pending; from the select with no tick
\* pending RunDaemon goes nowhere but to its return.
C28_CancelledCycleOnlyFirstOrOnTick ==
    /\ [][(ctxDone /\ CycleStarts) =>
              (dpc = "start" \/ (dpc = "select" /\ tick /\ ~tick'))]_vars
    /\ [][(ctxDone /\ dpc = "select" /\ ~tick) => dpc' \in {"select", "stopped"}]_vars

\* The select finds the context cancelled and a tick pending.
C28_Witness ==
    ctxDone /\ dpc = "select" /\ tick

\* C29: RunDaemon, once called, can start its first cycle at once, no tick
\* having fired; every other cycle starts by the select taking a tick.
C29_FirstCycleAtOnce ==
    /\ [](dpc = "start" => (~tick /\ ENABLED D_Start))
    /\ [][(dpc = "start" /\ dpc' # "start") => (CycleStarts /\ ~tick')]_vars
    /\ [][(CycleStarts /\ dpc # "start") => (dpc = "select" /\ tick /\ ~tick')]_vars

\* A later cycle is running after a cycle that ended well: its tick is taken.
C29_Witness ==
    /\ dpc = "running" /\ rpc = "resolve" /\ ~tick
    /\ runErr = NilE /\ newIPs.addrs # <<>>

\* C30: the period of the ticker RunDaemon makes is one minute when the
\* interval argument is below one minute, zero and negative values included,
\* and the interval argument otherwise.
C30_IntervalFloor ==
    /\ dpc # "start" => ticker # NoTicker
    /\ ticker # NoTicker =>
           /\ interval < 60 => ticker = 60
           /\ interval >= 60 => ticker = interval

\* RunDaemon was called with a negative interval and ticks every minute.
C30_Witness ==
    interval < 0 /\ ticker = 60 /\ dpc = "running"


\* C31: the cycles of one RunDaemon call never overlap: RunDDNS and the
\* SetDNSRecords call inside it are in flight only while the loop is inside its
\* one call of RunDDNS, and a cycle starts only when none is in flight. A tick
\* that fires while one is already pending starts no cycle and is not queued:
\* the next cycle takes the one pending tick and leaves none.
C31_CyclesNeverOverlap ==
    /\ [](rpc # "idle" => dpc = "running")
    /\ [](cfpc # "idle" => rpc = "set")
    /\ [][CycleStarts => (rpc = "idle" /\ cfpc = "idle" /\ dpc \in {"start", "select"})]_vars
    /\ [][(missed' /\ ~missed) => (tick /\ tick' /\ UNCHANGED <<dpc, rpc, setCalls, cfVars>>)]_vars
    /\ [][(CycleStarts /\ dpc = "select") => (tick /\ ~tick')]_vars

\* A cycle is still inside SetDNSRecords after the ticker fired more than once.
C31_Witness ==
    dpc = "running" /\ rpc = "set" /\ cfpc = "loops" /\ tick /\ missed


\* C32: the desired list is treated as a set: a call whose listing of the
\* existing records succeeded issues at most one create for each address,
\* however often the list holds it.
C32_DuplicatesCreateOnce ==
    listed # "failed" => \A a \in DesiredAddrs : Creates(a) <= 1


\* C33: a resolver that returns no address and a nil error makes the cycle
\* call SetDNSRecords with the empty list; the call creates nothing, and once
\* it has returned nil the domain has no A or AAAA record left.
C33_EmptyResolveDeletesAll ==
    (rpc = "set" /\ newIPs.addrs = <<>>) =>
        /\ newIPs.err = NilE
        /\ addrs = <<>>
        /\ setCalls = << <<>> >>
        /\ \A k \in 1..Len(ops) : ops[k].op # "create"
        /\ (cfpc = "returned" /\ cfret = NilE) => store = {}


\* C34: a call whose ListDNSRecords failed issues no delete and no create and
\* returns an error.
C34_ListFailureAborts ==
    listed = "failed" =>
        /\ ops = <<>>
        /\ cfpc = "returned" => cfret # NilE


\* C35: SetDNSRecords leaves the zone lookup either with the identifier of a
\* zone whose name ends the domain, or, when listing the zones failed or no
\* zone name ends the domain, by returning an error; records are listed only
\* with a zone identifier, and a call that returned without one listed no
\* records, issued no delete and no create and left the records alone.
C35_NoZoneAborts ==
    /\ [][(cfpc = "zone" /\ cfpc' # "zone") =>
             \/ /\ cfpc' = "list"
                /\ zid' \in {z.id : z \in {y \in Zones : y.suffix}}
                /\ cfret' = NilE
             \/ /\ cfpc' = "returned"
                /\ cfret' # NilE
                /\ zid' = ""]_vars
    /\ [](listed # "no" => zid # "")
    /\ []((cfpc = "returned" /\ zid = "") =>
             (cfret # NilE /\ listed = "no" /\ ops = <<>> /\ store = store0))

\* A call that was to replace a stale record returned because the provider's
\* zones do not cover the domain.
C35_Witness ==
    /\ cfpc = "returned" /\ zid = "" /\ cfret = Err("unable to get zone ID", "other")
    /\ store0 # {} /\ addrs # <<>> /\ AddrSet(store0) # Range(addrs)


\* C40: when SetDNSRecords returns an error the provider's records are what
\* they were before the call.
C40_ErrorLeavesRecordsUnchanged ==
    (cfpc = "returned" /\ cfret # NilE) => store = store0


\* The records the call's successful deletes removed and its successful creates
\* added.
DeletedIds == {ops[k].id : k \in {j \in 1..Len(ops) : ops[j].op = "delete" /\ ops[j].ok}}
CreatedRecords ==
    {[id |-> ops[k].id, type |-> ops[k].type, content |-> AddrString(ops[k].addr)] :
        k \in {j \in 1..Len(ops) : ops[j].op = "create" /\ ops[j].ok}}

\* C40, amended: when SetDNSRecords returns an error nothing is undone: the
\* provider's records are those from before the call without the records its
\* successful deletes removed and with the records its successful creates
\* added, and they are unchanged exactly when no operation had succeeded.
C40_ErrorKeepsCompletedOperations ==
    (cfpc = "returned" /\ cfret # NilE) =>
        /\ store = {r \in store0 : r.id \notin DeletedIds} \cup CreatedRecords
        /\ store = store0 <=> \A k \in 1..Len(ops) : ~ops[k].ok

\* A call deleted the stale record, failed to create the wanted one and
\* returned its error: the domain is left with no record.
C40_Witness ==
    /\ cfpc = "returned" /\ cfret # NilE
    /\ store0 # {} /\ store = {} /\ addrs # <<>>
    /\ ops[Len(ops)].op = "create"


\* The lookups of the call that returned address a.
LookedUp(a) == {i \in SuccessfulLookups : task[i].r.addr = a}
\* Three lookups ended without error, two with one address and one with another.
TwoOfThree ==
    /\ useCount = 3
    /\ SuccessfulLookups = TaskIds
    /\ \E i \in TaskIds : Cardinality(LookedUp(task[i].r.addr)) = 2
MajorityAddr == task[CHOOSE i \in TaskIds : Cardinality(LookedUp(task[i].r.addr)) = 2].r.addr

\* C37: when two of three endpoints return one address and the third another,
\* Resolve succeeds with the address of the two, in whatever order the results
\* arrive.
C37_MajorityInEveryOrder ==
    (TwoOfThree /\ wpc = "returned") =>
        (ret.err = NilErr /\ ret.addrs = <<MajorityAddr>>)

\* C37, amended: the outcome depends on the arrival order: with two endpoints
\* returning one address and the third another, Resolve succeeds with the
\* address of the two when their results are the first two received, fails
\* with the disagreement error and no address when the third endpoint's result
\* is received first, and never succeeds with the third endpoint's address.
C37_FirstArrivalDecides ==
    (TwoOfThree /\ wpc = "returned") =>
        /\ ret.err = NilErr => ret.addrs = <<MajorityAddr>>
        /\ (recvd[1].addr = MajorityAddr /\ recvd[2].addr = MajorityAddr) =>
               ret.err = NilErr
        /\ recvd[1].addr # MajorityAddr =>
               (ret.err = "IP resolvers did not agree on our IP" /\ ret.addrs = <<>>)

\* Two of three lookups returned the same address and Resolve failed: the odd
\* one arrived first and all three results were received.
C37_Witness ==
    /\ TwoOfThree /\ wpc = "returned" /\ ret.err # NilErr
    /\ Len(recvd) = 3 /\ recvd[1].addr # MajorityAddr


\* C39: a web resolver with no endpoint, its list nil or empty, starts no
\* lookup task and does not fail otherwise than by returning the 'no external
\* IP lookup services were provided' error with no address.
C39_ZeroEndpointsError ==
    Len(serviceURLs.urls) = 0 =>
        /\ Started = {}
        /\ wpc # "panicked"
        /\ wpc = "returned" =>
              /\ ret.err = "no external IP lookup services were provided"
              /\ ret.addrs = <<>>


\* The lookups of the call that had ended without error, with address a, when
\* the caller cancelled.
LookedUpBeforeCancel(a) ==
    {i \in wctx.looked : task[i].r.err = NilErr /\ task[i].r.addr = a}

C38_OptionsCommute ==
    \A h \in CallerClients, r \in WebResolvers :
        (/\ npc = "returned"
         /\ options \in {<<UsingHTTPClient(h), UsingResolver(r)>>,
                         <<UsingResolver(r), UsingHTTPClient(h)>>})
        => (client.Resolver = r /\ LookupClient(r) = h)

====
